---- MODULE Spec2Model ----
(***************************************************************************)
(* ArrowDeltaSimpleCache (src/caches.py): an in-memory cache of one        *)
(* DeltaTable, queried through a DuckDB connection under the fixed name    *)
(* pa_table.                                                               *)
(*                                                                         *)
(* A table object is a record [id, ver, rows]: id tells objects apart      *)
(* (the number of the materialization that built it), ver is the version   *)
(* of the DeltaTable whose rows it holds, rows is its row count.           *)
(***************************************************************************)
EXTENDS Integers, FiniteSets, Sequences, TLC

\* ---------------------------------------------------------------- bounds
MaxVersion == 2      \* commits the DeltaTable receives
MaxRows == 1         \* a table holds 0..MaxRows rows
MaxFetch == 2        \* calls of to_pyarrow_table() in one behaviour

\* ------------------------------------------------------------- constants
NoneVersion == -1    \* Python None as a version (real versions are >= 0)

NoTable == [id |-> 0, ver |-> NoneVersion, rows |-> 0]   \* Python None as a table
NoCount == NoneVersion   \* no COUNT(*) value in a call's result

RowCounts == 0..MaxRows
Queries == {"SELECT COUNT(*) FROM pa_table", "SELECT * FROM pa_table"}
CountQuery == "SELECT COUNT(*) FROM pa_table"

\* where a call may raise: the DeltaTable's version(), its to_pyarrow_table(),
\* the connection's execute() of the copy, its register(); "none" = no failure
RefreshFails == {"version", "to_pyarrow_table", "execute", "register"}
QueryFails == RefreshFails \cup {"query"}
ClearFails == {"unregister"}

VARIABLES
    delta_version,      \* the DeltaTable: its version()
    delta_rows,         \* the DeltaTable: the rows to_pyarrow_table() yields
    current_version,    \* self.__current_version
    cached_table,       \* self.__cached_table
    registered,         \* self.__con: the datasets registered as pa_table
    nFetch,             \* to_pyarrow_table() calls that returned so far
    last,               \* the last public call: its inputs, outcome and result
    frame               \* per caller, the call it is inside: its position
                        \* and local variables (used when calls run in steps)

vars == <<delta_version, delta_rows, current_version, cached_table,
          registered, nFetch, last, frame>>

\* the callers that may use one instance at the same time
Callers == {"A", "B"}

\* ------------------------------------------------------ the query engine
\* a register() that adds a binding and keeps the earlier ones
RegisterAccumulates(reg, t) == reg \cup {t}

\* con.register(name, obj): binds the name to obj, replacing an earlier binding
Register(reg, t) == {t}

\* an unregister() that leaves the binding in place
UnregisterKeeps(reg) == reg

\* con.unregister(name): drops the binding
Unregister(reg) == {}

\* DuckDB resolves a table name in the catalog first (a registered object
\* is a view of the connection) and falls back to a replacement scan of the
\* caller's Python variables only when the catalog has no such name.
ResolveTableName(reg, local) ==
    IF reg = {} THEN local ELSE CHOOSE t \in reg : TRUE

\* execute("SELECT * FROM ...").fetch_arrow_table(): a new table object
\* holding the rows of the scanned one
fetch_arrow_table(scanned, n) ==
    [id |-> n, ver |-> scanned.ver, rows |-> scanned.rows]

\* the dataset a user's query over pa_table scans (NoTable: none registered)
Scanned(reg) == IF reg = {} THEN NoTable ELSE CHOOSE t \in reg : TRUE

\* ---------------------------------------------------------- the DeltaTable
\* deltatable.to_pyarrow_table(): the n-th materialization
to_pyarrow_table(n, v, r) == [id |-> n, ver |-> v, rows |-> r]

\* ------------------------------------------------------------- the cache
\* the version property
version(cv) == cv

\* a check that takes an unset cached version for an up-to-date one
CheckIgnoresUnset(v, cv) == cv /= NoneVersion /\ v /= cv

\* a check that reports only a version greater than the cached one
CheckOnlyNewer(v, cv) == v > cv

\* __check_new_version_available
check_new_version_available(v, cv) == v /= version(cv)

\* __update_table_cache; fail is the call that raises ("none": no call)
update_table_cache(ct, reg, n, v, r, fail) ==
    LET pa_table == to_pyarrow_table(n + 1, v, r)
        fetched == fetch_arrow_table(ResolveTableName(reg, pa_table), n + 1)
    IN  IF fail = "to_pyarrow_table"
        THEN [cached_table |-> ct, registered |-> reg,
              fetches |-> 0, raised |-> TRUE]
        ELSE IF fail = "execute"
        THEN [cached_table |-> ct, registered |-> reg,
              fetches |-> 1, raised |-> TRUE]
        ELSE IF fail = "register"
        THEN [cached_table |-> fetched, registered |-> reg,
              fetches |-> 1, raised |-> TRUE]
        ELSE [cached_table |-> fetched, registered |-> Register(reg, fetched),
              fetches |-> 1, raised |-> FALSE]

\* the body of refresh(): check, then update when a new version is reported
RefreshOutcome(cv, ct, reg, n, v, r, fail) ==
    IF fail = "version"
    THEN [cached_table |-> ct, registered |-> reg,
          fetches |-> 0, raised |-> TRUE]
    ELSE IF check_new_version_available(v, cv)
    THEN update_table_cache(ct, reg, n, v, r, fail)
    ELSE [cached_table |-> ct, registered |-> reg,
          fetches |-> 0, raised |-> FALSE]

\* the table property: what it returns
TableGetter(ct) == ct

\* a caller outside any call
IdleFrame ==
    [pc |-> "idle", op |-> "none", pa_table |-> NoTable,
     old_table |-> NoTable, old_reg |-> {}, fetched_version |-> NoneVersion,
     updated |-> FALSE, result |-> NoTable, seen_cached |-> NoTable]

\* the record kept of a public call: what it was given, the state it
\* started from, how it ended and what it returned
Call(op, q, fail, raised, fetches, out, count) ==
    [op |-> op, q |-> q, fail |-> fail, raised |-> raised,
     fetches |-> fetches, out |-> out, count |-> count,
     prev |-> last.op,
     src_version |-> delta_version, src_rows |-> delta_rows,
     pre_version |-> current_version, pre_table |-> cached_table,
     pre_reg |-> registered, pre_fetch |-> nFetch]

Init ==
    /\ delta_version = 0
    /\ delta_rows \in RowCounts
    /\ current_version = NoneVersion
    /\ cached_table = NoTable
    /\ registered = {}
    /\ nFetch = 0
    /\ last = [op |-> "new", q |-> "", fail |-> "none", raised |-> FALSE,
               fetches |-> 0, out |-> NoTable, count |-> NoCount,
               prev |-> "new",
               src_version |-> 0, src_rows |-> delta_rows,
               pre_version |-> NoneVersion, pre_table |-> NoTable,
               pre_reg |-> {}, pre_fetch |-> 0]
    /\ frame = [c \in Callers |-> IdleFrame]

\* a writer commits to the DeltaTable: the version advances, the rows change
DeltaCommit(r) ==
    /\ delta_version < MaxVersion
    /\ delta_version' = delta_version + 1
    /\ delta_rows' = r
    /\ UNCHANGED <<current_version, cached_table, registered, nFetch, last,
                   frame>>

\* refresh() as run by init(), refresh() and query()
RunRefresh(op, fail) ==
    LET o == RefreshOutcome(current_version, cached_table, registered, nFetch,
                            delta_version, delta_rows, fail)
    IN  /\ cached_table' = o.cached_table
        /\ registered' = o.registered
        /\ nFetch' = nFetch + o.fetches
        /\ last' = Call(op, "", fail, o.raised, o.fetches, NoTable, NoCount)
        /\ UNCHANGED <<delta_version, delta_rows, current_version, frame>>

init(fail) ==
    /\ nFetch < MaxFetch
    /\ RunRefresh("init", fail)

refresh(fail) ==
    /\ nFetch < MaxFetch
    /\ RunRefresh("refresh", fail)

query(q, fail) ==
    /\ nFetch < MaxFetch
    /\ LET o == RefreshOutcome(current_version, cached_table, registered,
                               nFetch, delta_version, delta_rows,
                               IF fail = "query" THEN "none" ELSE fail)
           ds == Scanned(o.registered)
           raised == o.raised \/ fail = "query" \/ ds = NoTable
       IN  /\ cached_table' = o.cached_table
           /\ registered' = o.registered
           /\ nFetch' = nFetch + o.fetches
           /\ last' = Call("query", q, fail, raised, o.fetches,
                           IF raised THEN NoTable ELSE ds,
                           IF ~raised /\ q = CountQuery THEN ds.rows
                           ELSE NoCount)
    /\ UNCHANGED <<delta_version, delta_rows, current_version, frame>>

\* a table property that runs refresh() before it returns the cached table
tableRefreshes ==
    /\ nFetch < MaxFetch
    /\ LET o == RefreshOutcome(current_version, cached_table, registered,
                               nFetch, delta_version, delta_rows, "none")
       IN  /\ cached_table' = o.cached_table
           /\ registered' = o.registered
           /\ nFetch' = nFetch + o.fetches
           /\ last' = Call("table", "", "none", FALSE, o.fetches,
                           TableGetter(o.cached_table), NoCount)
    /\ UNCHANGED <<delta_version, delta_rows, current_version, frame>>

\* the table property: logs, returns self.__cached_table
table ==
    /\ last' = Call("table", "", "none", FALSE, 0, TableGetter(cached_table),
                    NoCount)
    /\ UNCHANGED <<delta_version, delta_rows, current_version, cached_table,
                   registered, nFetch, frame>>

\* a clear() that unregisters and forgets to drop the cached table
clearKeepsTable(fail) ==
    /\ registered' = IF fail = "unregister" THEN registered
                     ELSE Unregister(registered)
    /\ last' = Call("clear", "", fail, fail = "unregister", 0, NoTable,
                    NoCount)
    /\ UNCHANGED <<delta_version, delta_rows, current_version, cached_table,
                   nFetch, frame>>

\* clear(): drops the cached table, then unregisters pa_table
clear(fail) ==
    /\ cached_table' = NoTable
    /\ registered' = IF fail = "unregister" THEN registered
                     ELSE Unregister(registered)
    /\ last' = Call("clear", "", fail, fail = "unregister", 0, NoTable,
                    NoCount)
    /\ UNCHANGED <<delta_version, delta_rows, current_version, nFetch,
                   frame>>

Next ==
    \/ \E r \in RowCounts : DeltaCommit(r)
    \/ \E f \in RefreshFails \cup {"none"} : init(f)
    \/ \E f \in RefreshFails \cup {"none"} : refresh(f)
    \/ \E q \in Queries : \E f \in QueryFails \cup {"none"} : query(q, f)
    \/ table
    \/ \E f \in ClearFails \cup {"none"} : clear(f)

Spec == Init /\ [][Next]_vars

TypeOK ==
    /\ delta_version \in 0..MaxVersion
    /\ delta_rows \in RowCounts
    /\ current_version \in {NoneVersion} \cup (0..MaxVersion)
    /\ nFetch \in 0..MaxFetch

\* ------------------------------------------- the staleness check by itself
\* __check_new_version_available over every pairing of a source version and
\* a cached version, set or unset, beside any cached table
InitStaleness ==
    /\ delta_version \in 0..MaxVersion
    /\ delta_rows \in RowCounts
    /\ current_version \in {NoneVersion} \cup (0..MaxVersion)
    /\ cached_table \in {NoTable} \cup
           {to_pyarrow_table(1, v, r) : v \in 0..MaxVersion, r \in RowCounts}
    /\ registered = IF cached_table = NoTable THEN {} ELSE {cached_table}
    /\ nFetch = IF cached_table = NoTable THEN 0 ELSE 1
    /\ last = [op |-> "new", q |-> "", fail |-> "none", raised |-> FALSE,
               fetches |-> 0, out |-> NoTable, count |-> NoCount,
               prev |-> "new",
               src_version |-> delta_version, src_rows |-> delta_rows,
               pre_version |-> current_version, pre_table |-> cached_table,
               pre_reg |-> registered, pre_fetch |-> nFetch]
    /\ frame = [c \in Callers |-> IdleFrame]

\* one call of __check_new_version_available: reads the source's version,
\* compares, logs and returns; it assigns nothing
CheckVersion ==
    /\ last' = [op |-> "check",
                stale |-> check_new_version_available(delta_version,
                                                      current_version),
                src_version |-> delta_version, src_rows |-> delta_rows,
                pre_version |-> current_version, pre_table |-> cached_table,
                pre_reg |-> registered, pre_fetch |-> nFetch]
    /\ UNCHANGED <<delta_version, delta_rows, current_version, cached_table,
                   registered, nFetch, frame>>

NextStaleness ==
    \/ CheckVersion
    \/ \E r \in RowCounts : DeltaCommit(r)

SpecStaleness == InitStaleness /\ [][NextStaleness]_vars

\* --------------------------------------------------- calls run step by step
\* refresh() and query() as the statements they run, one caller at a time or
\* several interleaved: the class takes no lock.
\*   check            line 114: __check_new_version_available()
\*   to_pyarrow_table line 69:  pa_table = deltatable.to_pyarrow_table()
\*   copy             line 70:  self.__cached_table = execute(...).fetch...
\*   register         line 73:  con.register("pa_table", self.__cached_table)
\*   updated          line 74:  log, return from __update_table_cache
\*   execute          line 125: con.execute(query)
StepOps == {"init", "refresh", "query"}

\* calls that have yet to materialize
Pending == {c \in Callers : frame[c].pc \in {"check", "to_pyarrow_table"}}

AllIdle == \A c \in Callers : frame[c].pc = "idle"

AfterRefresh(op) == IF op = "query" THEN "execute" ELSE "idle"

\* caller t enters init(), refresh() or query()
CallStart(t, op) ==
    /\ frame[t].pc = "idle"
    /\ nFetch + Cardinality(Pending) < MaxFetch
    /\ frame' = [frame EXCEPT ![t] =
                     [IdleFrame EXCEPT !.pc = "check", !.op = op]]
    /\ UNCHANGED <<delta_version, delta_rows, current_version, cached_table,
                   registered, nFetch, last>>

CheckStep(t) ==
    /\ frame[t].pc = "check"
    /\ frame' = [frame EXCEPT ![t].pc =
                     IF check_new_version_available(delta_version,
                                                    current_version)
                     THEN "to_pyarrow_table"
                     ELSE AfterRefresh(frame[t].op)]
    /\ UNCHANGED <<delta_version, delta_rows, current_version, cached_table,
                   registered, nFetch, last>>

\* old_table, old_reg and fetched_version record what the update started from
MaterializeStep(t) ==
    /\ frame[t].pc = "to_pyarrow_table"
    /\ nFetch' = nFetch + 1
    /\ frame' = [frame EXCEPT
                     ![t].pc = "copy",
                     ![t].pa_table = to_pyarrow_table(nFetch + 1,
                                         delta_version, delta_rows),
                     ![t].old_table = cached_table,
                     ![t].old_reg = registered,
                     ![t].fetched_version = delta_version]
    /\ UNCHANGED <<delta_version, delta_rows, current_version, cached_table,
                   registered, last>>

\* an update that unregisters the old dataset before it stores the new one
CopyStepUnregistersFirst(t) ==
    /\ frame[t].pc = "copy"
    /\ registered' = Unregister(registered)
    /\ cached_table' = fetch_arrow_table(frame[t].pa_table,
                                         frame[t].pa_table.id)
    /\ frame' = [frame EXCEPT ![t].pc = "register"]
    /\ UNCHANGED <<delta_version, delta_rows, current_version, nFetch, last>>

CopyStep(t) ==
    /\ frame[t].pc = "copy"
    /\ cached_table' = fetch_arrow_table(
                           ResolveTableName(registered, frame[t].pa_table),
                           frame[t].pa_table.id)
    /\ frame' = [frame EXCEPT ![t].pc = "register"]
    /\ UNCHANGED <<delta_version, delta_rows, current_version, registered,
                   nFetch, last>>

\* an update that stores the new table and forgets to register it
RegisterStepSkipped(t) ==
    /\ frame[t].pc = "register"
    /\ frame' = [frame EXCEPT ![t].pc = "updated", ![t].updated = TRUE]
    /\ UNCHANGED <<delta_version, delta_rows, current_version, cached_table,
                   registered, nFetch, last>>

\* registers whatever self.__cached_table holds when the statement runs
RegisterStep(t) ==
    /\ frame[t].pc = "register"
    /\ registered' = Register(registered, cached_table)
    /\ frame' = [frame EXCEPT ![t].pc = "updated", ![t].updated = TRUE]
    /\ UNCHANGED <<delta_version, delta_rows, current_version, cached_table,
                   nFetch, last>>

UpdatedStep(t) ==
    /\ frame[t].pc = "updated"
    /\ frame' = [frame EXCEPT ![t].pc = AfterRefresh(frame[t].op)]
    /\ UNCHANGED <<delta_version, delta_rows, current_version, cached_table,
                   registered, nFetch, last>>

\* result: the dataset the query scanned; seen_cached: the cached table at
\* that moment
ExecuteStep(t) ==
    /\ frame[t].pc = "execute"
    /\ frame' = [frame EXCEPT ![t].pc = "idle",
                              ![t].result = Scanned(registered),
                              ![t].seen_cached = cached_table]
    /\ UNCHANGED <<delta_version, delta_rows, current_version, cached_table,
                   registered, nFetch, last>>

\* one caller: its calls in steps, clear() and table between calls
NextSteps ==
    \/ \E op \in StepOps : CallStart("A", op)
    \/ CheckStep("A")
    \/ MaterializeStep("A")
    \/ CopyStep("A")
    \/ RegisterStep("A")
    \/ UpdatedStep("A")
    \/ ExecuteStep("A")
    \/ AllIdle /\ clear("none")
    \/ AllIdle /\ table
    \/ \E r \in RowCounts : DeltaCommit(r)

SpecSteps == Init /\ [][NextSteps]_vars

\* two callers of query() on one instance, with nothing serializing them
NextConcurrent ==
    \/ \E t \in Callers : CallStart(t, "query")
    \/ \E t \in Callers : CheckStep(t)
    \/ \E t \in Callers : MaterializeStep(t)
    \/ \E t \in Callers : CopyStep(t)
    \/ \E t \in Callers : RegisterStep(t)
    \/ \E t \in Callers : UpdatedStep(t)
    \/ \E t \in Callers : ExecuteStep(t)
    \/ \E r \in RowCounts : DeltaCommit(r)

SpecConcurrent == Init /\ [][NextConcurrent]_vars

\* -------------------------------------------------------- a failing logger
\* Every method calls self.__logger.log(...) with no try around it, so a
\* log call that raises ends the method there.  "logger_before": the log
\* call that raises comes before the method's first assignment (lines 55,
\* 60, 68, 88, 96, 104); "logger_after": it comes after the method's last
\* assignment (lines 74, 98, 107, and 124, which precedes execute).
LogOps == {"init", "refresh", "query", "table", "clear"}
LoggerFails == {"logger_before", "logger_after"}

\* what the call does to the cache when every log call returns
Completed(op, cv, ct, reg, n, v, r) ==
    IF op \in {"init", "refresh", "query"}
    THEN RefreshOutcome(cv, ct, reg, n, v, r, "none")
    ELSE IF op = "clear"
    THEN [cached_table |-> NoTable, registered |-> Unregister(reg),
          fetches |-> 0, raised |-> FALSE]
    ELSE [cached_table |-> ct, registered |-> reg,
          fetches |-> 0, raised |-> FALSE]

LoggerRaises(op, at) ==
    /\ op = "table" => at = "logger_before"
    /\ op \in {"init", "refresh", "query"} => nFetch < MaxFetch
    /\ LET o == IF at = "logger_after"
                THEN Completed(op, current_version, cached_table, registered,
                               nFetch, delta_version, delta_rows)
                ELSE [cached_table |-> cached_table,
                      registered |-> registered, fetches |-> 0]
       IN  /\ cached_table' = o.cached_table
           /\ registered' = o.registered
           /\ nFetch' = nFetch + o.fetches
           /\ last' = Call(op, "", at, TRUE, o.fetches, NoTable, NoCount)
    /\ UNCHANGED <<delta_version, delta_rows, current_version, frame>>

NextLog ==
    \/ Next
    \/ \E op \in LogOps : \E at \in LoggerFails : LoggerRaises(op, at)

SpecLog == Init /\ [][NextLog]_vars

\* ================================================================ claims
RefreshOps == {"init", "refresh", "query"}

\* a call of init(), refresh() or query() in which nothing raises
RefreshStep ==
    \/ init("none")
    \/ refresh("none")
    \/ \E q \in Queries : query(q, "none")

\* the last call ran refresh(), found the cache stale and rebuilt it
Refreshed ==
    /\ last.op \in RefreshOps
    /\ last.fail \in {"none", "query"}
    /\ last.fetches = 1

\* C1: after a successful refresh that found the cache stale, the version
\* property equals the source's version observed at that refresh and the
\* cached table is the source's materialization taken at that refresh.
C1_VersionAndBatchFromRefresh ==
    Refreshed =>
        /\ version(current_version) = last.src_version
        /\ cached_table.ver = last.src_version
        /\ cached_table.rows = last.src_rows

\* C2: of two refresh-path calls in a row with no source version change in
\* between, the second performs no materialization, so that the two perform
\* at most one in total.
C2_SecondRefreshDoesNotFetch ==
    [][(/\ last.op \in RefreshOps
        /\ ~last.raised
        /\ last.src_version = delta_version
        /\ RefreshStep)
       => (last'.fetches = 0 /\ last.fetches + last'.fetches <= 1)]_vars

\* C3: every query() that returns was executed against a dataset holding a
\* materialization of the source at a version no older than the source's
\* version when the call began.
C3_QueryIsFresh ==
    (last.op = "query" /\ ~last.raised) => last.out.ver >= last.src_version

C5_RegisteredIffCached ==
    /\ (registered /= {}) <=> (cached_table /= NoTable)
    /\ registered /= {} => registered = {cached_table}

\* C6: a COUNT(*) query returns the row count the source holds when the
\* query is made (N when first populated, M once the source has advanced to
\* M rows), and the cached table is that materialization.
C6_CountFollowsSource ==
    (last.op = "query" /\ ~last.raised /\ last.q = CountQuery) =>
        /\ last.count = last.src_rows
        /\ cached_table.rows = last.src_rows

\* C7: after a clear() that returns, the cached table is absent, the version
\* is unset and pa_table is not registered.
C7_ClearReturnsToPreInit ==
    (last.op = "clear" /\ ~last.raised) =>
        /\ cached_table = NoTable
        /\ version(current_version) = NoneVersion
        /\ registered = {}

\* C7 witness: a clear() of a populated, registered cache has returned
C7_ClearedPopulated ==
    /\ last.op = "clear"
    /\ ~last.raised
    /\ last.pre_table /= NoTable
    /\ last.pre_reg = {last.pre_table}
    /\ cached_table = NoTable
    /\ registered = {}

\* what C8 asks of the call that follows a clear()
RepopulatedFromSource ==
    /\ last'.fetches = 1
    /\ last'.out.ver = delta_version
    /\ last'.out.rows = delta_rows
    /\ cached_table' = last'.out
    /\ registered' = {last'.out}

C9_OneRegistration ==
    /\ Cardinality(registered) <= 1
    /\ (Refreshed /\ last.fail = "none") =>
           /\ Cardinality(registered) = 1
           /\ registered = {cached_table}
           /\ cached_table.id = nFetch

\* C9 witness: a second refresh, with no clear() in between, has replaced
\* the registration of the first
C9_Reregistered ==
    /\ Refreshed
    /\ last.fail = "none"
    /\ last.pre_reg /= {}
    /\ last.pre_reg /= registered
    /\ nFetch >= 2

\* C10: a refresh in which the version read, the materialization or an
\* engine call raises leaves the version, the cached table and the
\* registration as they were.
C10_FailedRefreshChangesNothing ==
    (last.op \in RefreshOps /\ last.fail \in RefreshFails) =>
        /\ last.raised
        /\ current_version = last.pre_version
        /\ cached_table = last.pre_table
        /\ registered = last.pre_reg

\* C11: no call asks the engine to unregister pa_table, or to run a query
\* over it, while pa_table is not registered (clear() on a new instance and
\* clear() twice in a row included).
C11_NeverAsksForUnregisteredName ==
    /\ ~(last.op = "clear" /\ last.pre_reg = {})
    /\ ~(last.op = "query" /\ last.fail \in {"none", "query"}
         /\ registered = {})

\* C12: the cached table is absent whenever the version is unset; that is,
\* a present cached table always has a set version.  (The other half of the
\* pairing, absent only if unset or cleared, is not what fails.)
C12_PresentBatchHasVersion ==
    cached_table /= NoTable => version(current_version) /= NoneVersion

\* C13: an init() that returns has performed at least one
\* materialize+register and leaves the cache populated and registered; an
\* init() whose refresh raises leaves the state as it was.
C13_InitPopulatesOrChangesNothing ==
    last.op = "init" =>
        IF last.raised
        THEN /\ cached_table = last.pre_table
             /\ registered = last.pre_reg
             /\ current_version = last.pre_version
        ELSE /\ last.fetches >= 1
             /\ cached_table /= NoTable
             /\ registered = {cached_table}

\* C18: a query() in which neither the source nor the engine fails reaches
\* the engine's execute with pa_table registered, whatever came before: the
\* query is answered from the registered dataset.
C18_QueryExecutesOnRegisteredName ==
    (last.op = "query" /\ last.fail = "none") =>
        /\ ~last.raised
        /\ registered /= {}
        /\ last.out \in registered

\* C18 witness: the first call on a new instance was a query(), and it was
\* answered
C18_QueriedNeverInitialised ==
    /\ last.op = "query"
    /\ last.prev = "new"
    /\ last.fail = "none"
    /\ last.pre_table = NoTable
    /\ last.pre_reg = {}
    /\ last.out /= NoTable

\* C14: the staleness check returns true exactly when the source's version
\* differs from the cached version, so always while the cached version is
\* unset, and it changes neither the cached version, the cached table nor
\* the registration.
C14_CheckComparesAndMutatesNothing ==
    last.op = "check" =>
        /\ last.stale <=> (last.src_version /= last.pre_version)
        /\ last.pre_version = NoneVersion => last.stale
        /\ current_version = last.pre_version
        /\ cached_table = last.pre_table
        /\ registered = last.pre_reg
        /\ nFetch = last.pre_fetch

\* C14 witness: the check has answered false, the cached version being set
\* and equal to the source's, beside a populated cache
C14_CheckedUpToDate ==
    /\ last.op = "check"
    /\ ~last.stale
    /\ last.pre_version /= NoneVersion
    /\ last.pre_version = last.src_version
    /\ cached_table /= NoTable

\* C15: a refresh replaces the cached table first and registers it second,
\* with no unregister in between: while the update runs the registration it
\* started from stays in place (so a populated cache is never without a
\* registration), and when the update returns the engine is bound to the new
\* cached table and no longer to the old one.
C15_ReplaceThenRegister ==
    LET f == frame["A"]
    IN  /\ f.pc \in {"copy", "register"} => registered = f.old_reg
        /\ (f.pc \in {"copy", "register"} /\ f.old_reg /= {})
               => registered /= {}
        /\ f.pc = "register" =>
               /\ cached_table /= f.old_table
               /\ cached_table.id = f.pa_table.id
        /\ f.pc = "updated" =>
               /\ registered = {cached_table}
               /\ cached_table.id = f.pa_table.id
               /\ f.old_table \notin registered

\* C15 witness: mid-refresh of a populated cache, the cached table replaced
\* and the engine still bound to the old one
C15_ReplacedNotYetRegistered ==
    LET f == frame["A"]
    IN  /\ f.pc = "register"
        /\ f.old_table /= NoTable
        /\ f.old_reg = {f.old_table}
        /\ registered = f.old_reg
        /\ cached_table /= f.old_table

\* the cached table and the registration agree
Paired ==
    \/ cached_table = NoTable /\ registered = {}
    \/ registered = {cached_table}

\* C16: with two unserialized callers of query() the cached table and the
\* registration disagree only while a caller stands between replacing the
\* table and registering it; that state is reachable and a concurrent
\* query can run in it (C16_RedundantAndMidSwap).
C16_UnpairedOnlyMidSwap ==
    ~Paired => \E t \in Callers : frame[t].pc = "register"

\* C16 witness: both callers materialized and registered for the same source
\* version, and one of them ran its query while the other had replaced the
\* cached table: it scanned the previous dataset
C16_RedundantAndMidSwap ==
    \E a, b \in Callers :
        /\ a /= b
        /\ frame[a].updated
        /\ frame[b].updated
        /\ frame[a].fetched_version = frame[b].fetched_version
        /\ frame[a].pc = "idle"
        /\ frame[a].result /= NoTable
        /\ frame[a].result /= frame[a].seen_cached
        /\ frame[a].seen_cached.id = frame[b].pa_table.id

\* the cache state the last call would have left with a working logger
WithWorkingLogger ==
    Completed(last.op, last.pre_version, last.pre_table, last.pre_reg,
              last.pre_fetch, last.src_version, last.src_rows)

\* C17: a call during which the logger fails does not raise, and leaves the
\* cache in the state the same call leaves with a working logger.
C17_LoggerFailureIsHarmless ==
    last.fail \in LoggerFails =>
        /\ ~last.raised
        /\ cached_table = WithWorkingLogger.cached_table
        /\ registered = WithWorkingLogger.registered

====
